---- MODULE Spec2Model ----
(***************************************************************************)
(* Model of sharpest_frame_extractor.py: the streaming per-interval        *)
(* sharpest-frame selector (extract_best_frames), the per-video job        *)
(* (process_video) and the thread-pool scheduler                           *)
(* (process_videos_concurrently, main).                                    *)
(*                                                                         *)
(* Numbers.  A frame is identified by its 0-based position in the stream.  *)
(* The frame rate is an integer; the interval length is the rational       *)
(* interval_sec / IntervalDen.  Divisions are computed exactly on these    *)
(* values (the values stand for the exact values of the doubles the        *)
(* program holds; rounding of the quotient frame_index / fps is not        *)
(* modelled).                                                              *)
(***************************************************************************)
EXTENDS Integers, Sequences, FiniteSets, TLC

\* ------------------------------------------------------------------ bounds
MaxFrames == 4
MaxScore == 2
IntervalDen == 2
\* Line 93: ThreadPoolExecutor() takes the platform's default number of worker
\* threads; two here, fewer than the videos of a scheduler run.
max_workers == 2

FpsValues == {-1, 0, 1, 2}
IntervalNums == {-1, 0, 1, 2, 3}

\* The ways the environment of one job can fail (at most one per video):
\*   makedirs_base  os.makedirs(output_folder) raises
\*   open           cap.isOpened() is false
\*   makedirs_save  os.makedirs(save_dir) raises
\*   imwrite_raise  cv2.imwrite raises
\*   imwrite_false  cv2.imwrite returns False and writes nothing
Faults == {"none", "makedirs_base", "open", "makedirs_save", "imwrite_raise", "imwrite_false"}

None == -1

VARIABLES
    videos,         \* input: per job [path, fps, focus, fault]
    interval_sec,   \* input: --interval, numerator over IntervalDen
    no_subdir,      \* input: --no-subdir
    image_format,   \* input: --format
    main_pc,        \* main thread: "submit", "shutdown", "exit"
    submitted,      \* number of videos submitted so far
    work_queue,     \* executor work queue (job ids, FIFO)
    exit_status,    \* None while running, then the process exit status
    result,         \* what process_videos_concurrently returned ("pending" before)
    pc,             \* per job: position in process_video
    gen,            \* per job: state of the extract_best_frames generator
    cap,            \* per job: "none", "open", "released"
    frame_index,    \* per job: extract_best_frames local
    prev_interval,  \* per job: extract_best_frames local
    best_frame,     \* per job: extract_best_frames local (None or a frame)
    best_focus,     \* per job: extract_best_frames local
    frame,          \* per job: the frame last read (None before the first read)
    emitted,        \* per job: sequence of <<interval_idx, frame>> yielded
    written,        \* per job: sequence of paths handed to cv2.imwrite
    future,         \* per job: "pending", "running", "returned", or the exception
    files,          \* file system: image files present
    dirs,           \* file system: directories present
    stdout          \* lines printed

vars == <<videos, interval_sec, no_subdir, image_format, main_pc, submitted, work_queue,
          exit_status, result, pc, gen, cap, frame_index, prev_interval, best_frame, best_focus,
          frame, emitted, written, future, files, dirs, stdout>>

inputs == <<videos, interval_sec, no_subdir, image_format>>
main == <<main_pc, submitted, work_queue, exit_status, result>>
selector == <<frame_index, prev_interval, best_frame, best_focus, frame, emitted>>

Jobs == 1..Len(videos)

\* ------------------------------------------------------------- pure helpers

\* Python's floor division on the rationals a/1 and b/1, b # 0.
FloorDiv(a, b) ==
    IF b > 0 THEN a \div b
    ELSE (0 - a) \div (0 - b)

\* IntervalIdx counting frames from 1.
IntervalIdxOneBased(idx, fps, interval) ==
    IF fps = 0 THEN 0
    ELSE FloorDiv((idx + 1) * IntervalDen, fps * interval)

\* Line 46-47: time_in_sec = frame_index / fps if fps else 0;
\* interval_idx = int(time_in_sec // interval_sec).  Defined for interval # 0.
IntervalIdx(idx, fps, interval) ==
    IF fps = 0 THEN 0
    ELSE FloorDiv(idx * IntervalDen, fps * interval)

\* variance_of_laplacian of frame f of job j (an opaque non-negative score).
Focus(j, f) == videos[j].focus[f + 1]

NumFrames(j) == Len(videos[j].focus)

\* A video path is <<directory, stem, extension>>.
\* Line 73: os.path.splitext(os.path.basename(video_path))[0].
BaseName(path) == path[2]

DigitChar(d) == <<"0", "1", "2", "3", "4", "5", "6", "7", "8", "9">>[d + 1]

RECURSIVE Digits(_)
Digits(n) == IF n < 10 THEN <<DigitChar(n)>> ELSE Digits(n \div 10) \o <<DigitChar(n % 10)>>

RECURSIVE ZeroPad(_, _)
ZeroPad(s, width) == IF Len(s) >= width THEN s ELSE ZeroPad(<<"0">> \o s, width)

PadWidth == 4

\* Pad4 without the width: f"{interval_idx}".
PadNone(k) ==
    IF k >= 0 THEN Digits(k)
    ELSE <<"-">> \o Digits(0 - k)

\* Line 85: f"{interval_idx:04d}" (the sign counts towards the width).
Pad4(k) ==
    IF k >= 0 THEN ZeroPad(Digits(k), PadWidth)
    ELSE <<"-">> \o ZeroPad(Digits(0 - k), PadWidth - 1)

OutputFolder == <<"out">>

\* Lines 77-80.
SaveDir(j) ==
    IF no_subdir THEN OutputFolder
    ELSE OutputFolder \o <<BaseName(videos[j].path)>>

\* Lines 85, 13-14: the file name handed to cv2.imwrite.
SavePath(j, idx) ==
    [dir |-> SaveDir(j), stem |-> <<BaseName(videos[j].path), "_", Pad4(idx)>>, ext |-> image_format]

Terminated(j) == pc[j] \in {"done", "raised"}

\* Running, with a job that raised never giving its worker back.
RunningOrRaised(j) == pc[j] \in {"open", "prepare", "next", "save", "release", "raised"}

\* The job occupies a worker thread.
Running(j) == pc[j] \in {"open", "prepare", "next", "save", "release"}

\* ------------------------------------------------------------------ actions

\* Lines 94-102: the main thread submits the next video to the executor.
Submit ==
    /\ main_pc = "submit"
    /\ submitted < Len(videos)
    /\ submitted' = submitted + 1
    /\ work_queue' = Append(work_queue, submitted + 1)
    /\ pc' = [pc EXCEPT ![submitted + 1] = "queued"]
    /\ future' = [future EXCEPT ![submitted + 1] = "pending"]
    /\ UNCHANGED <<inputs, main_pc, exit_status, result, gen, cap, selector, written, files, dirs, stdout>>

\* Line 93: the for loop is over, the with block's exit begins (shutdown(wait=True)).
Shutdown ==
    /\ main_pc = "submit"
    /\ submitted = Len(videos)
    /\ main_pc' = "shutdown"
    /\ UNCHANGED <<inputs, submitted, work_queue, exit_status, result, pc, gen, cap, selector,
                   written, future, files, dirs, stdout>>

\* Leaving the with block without waiting for the workers.
JoinNoWait == TRUE

\* Line 93: the with block's exit waits until every submitted job has ended.
JoinWorkers == \A j \in Jobs : Terminated(j)

\* Lines 93, 129-135: shutdown returns, process_videos_concurrently returns None,
\* main returns.
Exit ==
    /\ main_pc = "shutdown"
    /\ JoinWorkers
    /\ main_pc' = "exit"
    /\ exit_status' = 0
    /\ result' = "None"
    /\ UNCHANGED <<inputs, submitted, work_queue, pc, gen, cap, selector, written, future,
                   files, dirs, stdout>>

\* WorkerFree with a pool that starts a thread for every item.
WorkerAlwaysFree == TRUE

\* A worker thread is free to take the next work item.
WorkerFree == Cardinality({k \in Jobs : Running(k)}) < max_workers

\* A free worker takes the head of the queue and runs process_video up to line 65.
StartJob(j) ==
    /\ work_queue # <<>>
    /\ j = Head(work_queue)
    /\ WorkerFree
    /\ work_queue' = Tail(work_queue)
    /\ IF videos[j].fault = "makedirs_base"
       THEN /\ pc' = [pc EXCEPT ![j] = "raised"]
            /\ future' = [future EXCEPT ![j] = "OSError"]
            /\ dirs' = dirs
       ELSE /\ pc' = [pc EXCEPT ![j] = "open"]
            /\ future' = [future EXCEPT ![j] = "running"]
            /\ dirs' = dirs \cup {OutputFolder}
    /\ UNCHANGED <<inputs, main_pc, submitted, exit_status, result, gen, cap, selector, written,
                   files, stdout>>

\* SkipVideo without the except clause: the IOError leaves process_video.
SkipVideoRaise(j) ==
    /\ stdout' = stdout
    /\ pc' = [pc EXCEPT ![j] = "raised"]
    /\ future' = [future EXCEPT ![j] = "IOError"]

\* Lines 69-71: the IOError of get_video_properties is caught, a warning is
\* printed and process_video returns.
SkipVideo(j) ==
    /\ stdout' = stdout \cup {<<"Warning", j>>}
    /\ pc' = [pc EXCEPT ![j] = "done"]
    /\ future' = [future EXCEPT ![j] = "returned"]

\* Lines 67-74 with get_video_properties (17-25).
OpenVideo(j) ==
    /\ pc[j] = "open"
    /\ IF videos[j].fault = "open"
       THEN /\ cap' = [cap EXCEPT ![j] = "unopened"]
            /\ SkipVideo(j)
       ELSE /\ cap' = [cap EXCEPT ![j] = "open"]
            /\ stdout' = stdout \cup {<<"Processing", j>>}
            /\ pc' = [pc EXCEPT ![j] = "prepare"]
            /\ future' = future
    /\ UNCHANGED <<inputs, main, gen, selector,
                   written, files, dirs>>

\* Lines 76-84: create the save directory, create the generator.
PrepareSaveDir(j) ==
    /\ pc[j] = "prepare"
    /\ IF videos[j].fault = "makedirs_save"
       THEN /\ pc' = [pc EXCEPT ![j] = "raised"]
            /\ future' = [future EXCEPT ![j] = "OSError"]
            /\ UNCHANGED <<dirs, gen>>
       ELSE /\ pc' = [pc EXCEPT ![j] = "next"]
            /\ dirs' = dirs \cup {SaveDir(j)}
            /\ gen' = [gen EXCEPT ![j] = "running"]
            /\ future' = future
    /\ UNCHANGED <<inputs, main, cap, selector,
                   written, files, stdout>>

\* InstallFrame without line 54: the score of the closed bucket survives.
InstallFrameKeepFocus(j, f) ==
    /\ prev_interval' = [prev_interval EXCEPT ![j] = IntervalIdx(f, videos[j].fps, interval_sec)]
    /\ best_frame' = [best_frame EXCEPT ![j] = f]
    /\ best_focus' = best_focus
    /\ frame_index' = [frame_index EXCEPT ![j] = frame_index[j] + 1]

\* InstallFrame without line 53: the best frame of the closed bucket is kept.
InstallFrameKeepBest(j, f) ==
    /\ prev_interval' = [prev_interval EXCEPT ![j] = IntervalIdx(f, videos[j].fps, interval_sec)]
    /\ best_frame' = best_frame
    /\ best_focus' = [best_focus EXCEPT ![j] = Focus(j, f)]
    /\ frame_index' = [frame_index EXCEPT ![j] = frame_index[j] + 1]

\* Lines 52-54 and 60: the frame just read becomes the candidate of its bucket.
InstallFrame(j, f) ==
    /\ prev_interval' = [prev_interval EXCEPT ![j] = IntervalIdx(f, videos[j].fps, interval_sec)]
    /\ best_frame' = [best_frame EXCEPT ![j] = f]
    /\ best_focus' = [best_focus EXCEPT ![j] = Focus(j, f)]
    /\ frame_index' = [frame_index EXCEPT ![j] = frame_index[j] + 1]

\* Sharper with >= in place of >: the last of equally sharp frames wins.
SharperOrEqual(focus, best) == focus >= best

\* Line 56: a frame of the open bucket replaces the best one.
Sharper(focus, best) == focus > best

\* Line 49: the frame read belongs to another bucket than the open one.
BucketChanged(idx, prev) == idx # prev

\* Yield with the frame last read in place of the best one.
YieldLastRead(j) == emitted' = [emitted EXCEPT ![j] = Append(emitted[j], <<prev_interval[j], frame[j]>>)]

\* Lines 41 and 51: yield prev_interval, best_frame.
Yield(j) == emitted' = [emitted EXCEPT ![j] = Append(emitted[j], <<prev_interval[j], best_frame[j]>>)]

\* HasBest without the test: the generator yields whether or not it holds a frame.
HasBestAlways(j) == TRUE

\* Lines 40 and 50: if best_frame is not None.
HasBest(j) == best_frame[j] # None

\* Lines 37-60: one pass of the generator's loop, up to its next yield, its end
\* or its next cap.read().
ReadFrame(j) ==
    /\ pc[j] = "next"
    /\ gen[j] = "running"
    /\ IF frame_index[j] >= NumFrames(j)
       THEN \* lines 39-42: end of stream
            /\ frame' = [frame EXCEPT ![j] = None]
            /\ UNCHANGED <<frame_index, prev_interval, best_frame, best_focus, future>>
            /\ IF HasBest(j)
               THEN /\ Yield(j)
                    /\ gen' = [gen EXCEPT ![j] = "yield_final"]
                    /\ pc' = [pc EXCEPT ![j] = "save"]
               ELSE /\ emitted' = emitted
                    /\ gen' = [gen EXCEPT ![j] = "finished"]
                    /\ pc' = [pc EXCEPT ![j] = "release"]
       ELSE /\ frame' = [frame EXCEPT ![j] = frame_index[j]]
            /\ IF interval_sec = 0
               THEN \* line 47: float floor division by zero
                    /\ gen' = [gen EXCEPT ![j] = "error"]
                    /\ pc' = [pc EXCEPT ![j] = "raised"]
                    /\ future' = [future EXCEPT ![j] = "ZeroDivisionError"]
                    /\ UNCHANGED <<frame_index, prev_interval, best_frame, best_focus, emitted>>
               ELSE /\ future' = future
                    /\ IF BucketChanged(IntervalIdx(frame_index[j], videos[j].fps, interval_sec),
                                        prev_interval[j])
                       THEN IF HasBest(j)
                            THEN /\ Yield(j)
                                 /\ gen' = [gen EXCEPT ![j] = "yield_boundary"]
                                 /\ pc' = [pc EXCEPT ![j] = "save"]
                                 /\ UNCHANGED <<frame_index, prev_interval, best_frame, best_focus>>
                            ELSE /\ InstallFrame(j, frame_index[j])
                                 /\ UNCHANGED <<emitted, gen, pc>>
                       ELSE /\ IF Sharper(Focus(j, frame_index[j]), best_focus[j])
                               THEN /\ best_focus' = [best_focus EXCEPT ![j] = Focus(j, frame_index[j])]
                                    /\ best_frame' = [best_frame EXCEPT ![j] = frame_index[j]]
                               ELSE UNCHANGED <<best_focus, best_frame>>
                            /\ frame_index' = [frame_index EXCEPT ![j] = frame_index[j] + 1]
                            /\ UNCHANGED <<prev_interval, emitted, gen, pc>>
    /\ UNCHANGED <<inputs, main, cap, written, files,
                   dirs, stdout>>

\* Lines 85-86 (save_frame, 11-15) for the pair just yielded, then the generator
\* is resumed: after a boundary yield it runs lines 52-60, after the final yield
\* it breaks and the for loop ends.
SaveFrame(j) ==
    /\ pc[j] = "save"
    /\ LET path == SavePath(j, emitted[j][Len(emitted[j])][1]) IN
       IF videos[j].fault = "imwrite_raise"
       THEN /\ pc' = [pc EXCEPT ![j] = "raised"]
            /\ future' = [future EXCEPT ![j] = "cv2.error"]
            /\ written' = [written EXCEPT ![j] = Append(written[j], path)]
            /\ UNCHANGED <<files, gen, frame_index, prev_interval, best_frame, best_focus>>
       ELSE /\ future' = future
            /\ written' = [written EXCEPT ![j] = Append(written[j], path)]
            /\ files' = IF videos[j].fault = "imwrite_false" THEN files ELSE files \cup {path}
            /\ IF gen[j] = "yield_boundary"
               THEN /\ InstallFrame(j, frame[j])
                    /\ gen' = [gen EXCEPT ![j] = "running"]
                    /\ pc' = [pc EXCEPT ![j] = "next"]
               ELSE /\ gen' = [gen EXCEPT ![j] = "finished"]
                    /\ pc' = [pc EXCEPT ![j] = "release"]
                    /\ UNCHANGED <<frame_index, prev_interval, best_frame, best_focus>>
    /\ UNCHANGED <<inputs, main, cap, frame, emitted,
                   dirs, stdout>>

\* Lines 88-89.
Release(j) ==
    /\ pc[j] = "release"
    /\ cap' = [cap EXCEPT ![j] = "released"]
    /\ stdout' = stdout \cup {<<"Finished", j>>}
    /\ pc' = [pc EXCEPT ![j] = "done"]
    /\ future' = [future EXCEPT ![j] = "returned"]
    /\ UNCHANGED <<inputs, main, gen, selector,
                   written, files, dirs>>

\* ------------------------------------------------------------ specifications

RECURSIVE SeqsUpTo(_, _)
SeqsUpTo(S, n) ==
    IF n = 0 THEN {<<>>}
    ELSE LET shorter == SeqsUpTo(S, n - 1) IN
         shorter \cup {Append(s, x) : s \in {t \in shorter : Len(t) = n - 1}, x \in S}

Scores == 0..MaxScore

\* InitLocals with the best score starting at 0.
InitLocalsZeroFocus == [best_frame |-> None, best_focus |-> 0, prev_interval |-> 0, frame_index |-> 0]

\* Lines 32-35: the generator's locals before the first read.
InitLocals == [best_frame |-> None, best_focus |-> -1, prev_interval |-> 0, frame_index |-> 0]

\* The state of every job before it is submitted (lines 32-35 for the selector).
InitJobs ==
    /\ main_pc = "submit"
    /\ submitted = 0
    /\ work_queue = <<>>
    /\ exit_status = None
    /\ result = "pending"
    /\ pc = [j \in Jobs |-> "unsubmitted"]
    /\ gen = [j \in Jobs |-> "none"]
    /\ cap = [j \in Jobs |-> "none"]
    /\ frame_index = [j \in Jobs |-> InitLocals.frame_index]
    /\ prev_interval = [j \in Jobs |-> InitLocals.prev_interval]
    /\ best_frame = [j \in Jobs |-> InitLocals.best_frame]
    /\ best_focus = [j \in Jobs |-> InitLocals.best_focus]
    /\ frame = [j \in Jobs |-> None]
    /\ emitted = [j \in Jobs |-> <<>>]
    /\ written = [j \in Jobs |-> <<>>]
    /\ future = [j \in Jobs |-> "none"]
    /\ files = {}
    /\ dirs = {}
    /\ stdout = {}

\* The command line of the scheduler's runs: three videos, two of them with the
\* same base name in different directories.
ArgvVideos == << <<"d1", "a", "mp4">>, <<"d2", "a", "mp4">>, <<"d1", "b", "mp4">> >>

\* What the three files hold: frame rate and the score of each frame.
ArgvClips == << [fps |-> 1, focus |-> <<1, 2>>],
                [fps |-> 2, focus |-> <<2, 1, 1>>],
                [fps |-> 2, focus |-> <<0>>] >>

\* Scheduler runs: several short videos, any fault for each.
Init ==
    /\ videos \in {[j \in DOMAIN ArgvVideos |->
                      [path |-> ArgvVideos[j], fps |-> ArgvClips[j].fps,
                       focus |-> ArgvClips[j].focus, fault |-> flt[j]]] :
                   flt \in [DOMAIN ArgvVideos -> Faults]}
    /\ interval_sec \in {0, IntervalDen}
    /\ no_subdir \in BOOLEAN
    /\ image_format = "jpg"
    /\ InitJobs

\* Selector runs: one video, any stream of scored frames, any frame rate and
\* interval.
InitSelector ==
    /\ videos \in {<<[path |-> ArgvVideos[1], fps |-> r, focus |-> s, fault |-> flt]>> :
                   r \in FpsValues, s \in SeqsUpTo(Scores, MaxFrames),
                   flt \in {"none", "imwrite_raise"}}
    /\ interval_sec \in IntervalNums
    /\ no_subdir = FALSE
    /\ image_format = "png"
    /\ InitJobs

\* The scores of the long stream: one of a few periodic patterns.
PatternScores(n, step) == [i \in 1..n |-> ((i - 1) * step) % (MaxScore + 1)]

\* The run of the 3.1 s scenario: one video of 93 frames at 30 frames per
\* second, interval 1.0 s.
InitScenario ==
    /\ videos \in {<<[path |-> ArgvVideos[1], fps |-> 30, focus |-> PatternScores(93, step),
                       fault |-> "none"]>> : step \in 0..MaxScore}
    /\ interval_sec = IntervalDen
    /\ no_subdir \in BOOLEAN
    /\ image_format = "jpg"
    /\ InitJobs

Next ==
    \/ Submit
    \/ Shutdown
    \/ Exit
    \/ \E j \in Jobs : StartJob(j)
    \/ \E j \in Jobs : OpenVideo(j)
    \/ \E j \in Jobs : PrepareSaveDir(j)
    \/ \E j \in Jobs : ReadFrame(j)
    \/ \E j \in Jobs : SaveFrame(j)
    \/ \E j \in Jobs : Release(j)

Spec == Init /\ [][Next]_vars

SpecSelector == InitSelector /\ [][Next]_vars

SpecScenario == InitScenario /\ [][Next]_vars

\* The command line of the two-video runs, and what each file may hold: one
\* frame, two frames half a second apart, or two frames a second apart.
PairVideos == << <<"d1", "a", "mp4">>, <<"d1", "b", "mp4">> >>

PairClips == {[fps |-> 2, focus |-> <<1>>],
              [fps |-> 2, focus |-> <<1, 2>>],
              [fps |-> 1, focus |-> <<2, 1>>]}

\* Two-video runs: a.mp4 and b.mp4, either layout, either format, an interval
\* of one second forwards or backwards, cv2.imwrite working or failing.
InitPair ==
    /\ videos \in {[j \in DOMAIN PairVideos |->
                      [path |-> PairVideos[j], fps |-> clip[j].fps,
                       focus |-> clip[j].focus, fault |-> flt[j]]] :
                   clip \in [DOMAIN PairVideos -> PairClips],
                   flt \in [DOMAIN PairVideos -> {"none", "imwrite_false", "imwrite_raise"}]}
    /\ interval_sec \in {IntervalDen, 0 - IntervalDen}
    /\ no_subdir \in BOOLEAN
    /\ image_format \in {"jpg", "png"}
    /\ InitJobs

SpecPair == InitPair /\ [][Next]_vars

\* The main thread and the worker threads are scheduled by the operating system:
\* a step that stays possible is eventually taken.
FairSpec == Spec /\ WF_vars(Next)

\* ------------------------------------------------------- claims: the selector

\* floor((i / frame_rate) / interval_length) for a positive rate and interval.
SpecBucket(j, i) == (i * IntervalDen) \div (videos[j].fps * interval_sec)

Frames(j) == 0..(NumFrames(j) - 1)

FramesOfBucket(j, b) == {i \in Frames(j) : SpecBucket(j, i) = b}

NonEmptyBuckets(j) == {SpecBucket(j, i) : i \in Frames(j)}

PositiveConfig(j) == videos[j].fps > 0 /\ interval_sec > 0

\* The generator has seen the end of the stream.
SelectorDone(j) == gen[j] \in {"yield_final", "finished"}

EmittedBuckets(j) == {emitted[j][k][1] : k \in DOMAIN emitted[j]}

\* C1: for a positive frame rate and interval, every pair emitted is (b, f) with
\* f a frame of bucket b = floor((i/rate)/interval) of maximal score in b, and
\* once the stream is exhausted the buckets emitted are exactly the non-empty
\* buckets, one pair each.
C1_ArgmaxPerBucket ==
    \A j \in Jobs : PositiveConfig(j) =>
        /\ \A k \in DOMAIN emitted[j] :
              LET b == emitted[j][k][1]
                  f == emitted[j][k][2]
              IN  /\ f \in FramesOfBucket(j, b)
                  /\ \A g \in FramesOfBucket(j, b) : Focus(j, g) <= Focus(j, f)
        /\ SelectorDone(j) =>
              /\ EmittedBuckets(j) = NonEmptyBuckets(j)
              /\ Len(emitted[j]) = Cardinality(NonEmptyBuckets(j))

\* A finished run with two buckets where the frame emitted for the second bucket
\* is not that bucket's first frame and the first bucket's score was higher.
C1_Witness ==
    \E j \in Jobs :
        /\ PositiveConfig(j)
        /\ SelectorDone(j)
        /\ Len(emitted[j]) = 2
        /\ emitted[j][2][2] # 0
        /\ SpecBucket(j, emitted[j][2][2] - 1) = emitted[j][2][1]
        /\ Focus(j, emitted[j][1][2]) > Focus(j, emitted[j][2][2])

\* The buckets the code assigns (any rate, any non-zero interval).
CodeBucket(j, i) == IntervalIdx(i, videos[j].fps, interval_sec)

\* C2 (as claimed, for every run): once the stream is exhausted, every bucket
\* that received a frame has been emitted exactly once and the emitted bucket
\* indices are strictly increasing.
C2_OncePerBucketIncreasing ==
    \A j \in Jobs : SelectorDone(j) =>
        /\ EmittedBuckets(j) = {CodeBucket(j, i) : i \in Frames(j)}
        /\ \A k, l \in DOMAIN emitted[j] : k < l => emitted[j][k][1] < emitted[j][l][1]

\* C3: the frame emitted for a bucket is the earliest of the frames of that
\* bucket with the maximal score: no earlier frame of the bucket scores as much.
C3_TieBreakEarliest ==
    \A j \in Jobs : \A k \in DOMAIN emitted[j] :
        LET b == emitted[j][k][1]
            f == emitted[j][k][2]
        IN  \A g \in Frames(j) :
                (CodeBucket(j, g) = b /\ g < f) => Focus(j, g) < Focus(j, f)

\* A pair was emitted for a bucket in which a later frame has the same score.
C3_Witness ==
    \E j \in Jobs : \E k \in DOMAIN emitted[j] : \E g \in Frames(j) :
        /\ CodeBucket(j, g) = emitted[j][k][1]
        /\ g > emitted[j][k][2]
        /\ Focus(j, g) = Focus(j, emitted[j][k][2])

\* The last pair emitted is the open bucket with its best frame, that frame has
\* the maximal score of the bucket, and the bucket was emitted only once.
FinalBucketEmitted(j) ==
    /\ emitted[j] # <<>>
    /\ emitted[j][Len(emitted[j])] = <<prev_interval[j], best_frame[j]>>
    /\ best_frame[j] \in Frames(j)
    /\ CodeBucket(j, best_frame[j]) = prev_interval[j]
    /\ \A g \in Frames(j) :
          CodeBucket(j, g) = prev_interval[j] => Focus(j, g) <= Focus(j, best_frame[j])
    /\ Cardinality({k \in DOMAIN emitted[j] : emitted[j][k][1] = prev_interval[j]}) = 1

\* C4: when the stream has ended after at least one frame, the final bucket has
\* been emitted once, with its best frame, before the generator finishes, and no
\* emission follows it.
C4_FinalBucketEmittedOnce ==
    /\ [](\A j \in Jobs : (SelectorDone(j) /\ NumFrames(j) > 0) => FinalBucketEmitted(j))
    /\ [][\A j \in Jobs : SelectorDone(j) => emitted'[j] = emitted[j]]_vars

\* The stream ended in the middle of the second bucket (one frame in it, the
\* first bucket had two) and the generator has finished.
C4_Witness ==
    \E j \in Jobs :
        /\ gen[j] = "finished"
        /\ NumFrames(j) = 3
        /\ Len(emitted[j]) = 2
        /\ emitted[j][2] = <<1, 2>>

\* C5 (as claimed): with a zero or negative frame rate, a non-empty stream
\* yields exactly one pair, bucket 0 with a frame of the globally maximal score.
C5_NonPositiveRateOnePair ==
    \A j \in Jobs :
        (videos[j].fps <= 0 /\ gen[j] = "finished" /\ NumFrames(j) > 0) =>
            /\ Len(emitted[j]) = 1
            /\ emitted[j][1][1] = 0
            /\ \A g \in Frames(j) : Focus(j, g) <= Focus(j, emitted[j][1][2])

\* C11: a stream of zero frames yields no pair and raises nothing: the first read
\* finds the end of the stream and the generator finishes without a yield, the
\* job hands no file to cv2.imwrite and goes on to release its handle and return.
C11_EmptyStreamNoEmission ==
    /\ [](\A j \in Jobs : (NumFrames(j) = 0 /\ gen[j] # "none") =>
             /\ gen[j] \in {"running", "finished"}
             /\ emitted[j] = <<>>
             /\ written[j] = <<>>
             /\ frame[j] = None /\ best_frame[j] = None /\ frame_index[j] = 0
             /\ pc[j] \in {"next", "release", "done"}
             /\ future[j] \in {"running", "returned"}
             /\ pc[j] = "done" => (cap[j] = "released" /\ future[j] = "returned"))
    /\ [][\A j \in Jobs : (NumFrames(j) = 0 /\ gen[j] = "running" /\ pc'[j] # pc[j]) =>
             (gen'[j] = "finished" /\ pc'[j] = "release")]_vars

\* A job over an empty stream has returned, and the interval was even zero.
C11_Witness ==
    \E j \in Jobs :
        /\ NumFrames(j) = 0
        /\ pc[j] = "done"
        /\ gen[j] = "finished"
        /\ interval_sec = 0

\* The bucket the scenario gives frame i of the 93.
ScenarioBucket(i) ==
    IF i <= 29 THEN 0 ELSE IF i <= 59 THEN 1 ELSE IF i <= 89 THEN 2 ELSE 3

\* C12: in the run of 93 frames at 30 fps with interval 1.0 s, frames 0-29 are
\* classified into bucket 0, 30-59 into 1, 60-89 into 2 and 90-92 into 3 (the
\* open bucket after a frame is processed is the frame's bucket), and when the
\* stream is exhausted exactly 4 pairs have been emitted, for buckets 0, 1, 2, 3
\* in that order, each with a frame of its bucket.
C12_Scenario93Frames ==
    \A j \in Jobs :
        /\ NumFrames(j) = 93
        /\ \A i \in Frames(j) : CodeBucket(j, i) = ScenarioBucket(i)
        /\ frame_index[j] > 0 => prev_interval[j] = ScenarioBucket(frame_index[j] - 1)
        /\ HasBest(j) => ScenarioBucket(best_frame[j]) = prev_interval[j]
        /\ \A k \in DOMAIN emitted[j] :
              emitted[j][k][1] = k - 1 /\ ScenarioBucket(emitted[j][k][2]) = k - 1
        /\ SelectorDone(j) => Len(emitted[j]) = 4

\* The run is over with its four files written.
C12_Witness ==
    \E j \in Jobs :
        /\ pc[j] = "done"
        /\ Len(emitted[j]) = 4
        /\ Len(written[j]) = 4
        /\ frame_index[j] = 93

\* ------------------------------------------- claims: the job and the scheduler

\* C6 (as claimed): an interval <= 0 is rejected before any job starts: nothing
\* is submitted, no frame is read, no file is written, and the process does not
\* end with status 0.
C6_NonPositiveIntervalRejected ==
    interval_sec <= 0 =>
        /\ submitted = 0
        /\ \A j \in Jobs : frame[j] = None /\ frame_index[j] = 0
        /\ files = {}
        /\ exit_status # 0

\* C7 (as claimed): no job ends with its video source handle still open.
C7_HandleReleasedOnExit ==
    \A j \in Jobs : Terminated(j) => cap[j] # "open"

\* A job whose own environment and configuration let it succeed.
Healthy(j) == videos[j].fault = "none" /\ PositiveConfig(j)

ExpectedFiles(j) == {SavePath(j, b) : b \in NonEmptyBuckets(j)}

\* The job ran to its end and produced one pair and one file per non-empty bucket.
Completed(j) ==
    /\ pc[j] = "done"
    /\ future[j] = "returned"
    /\ <<"Finished", j>> \in stdout
    /\ EmittedBuckets(j) = NonEmptyBuckets(j)
    /\ Len(emitted[j]) = Cardinality(NonEmptyBuckets(j))
    /\ {written[j][k] : k \in DOMAIN written[j]} = ExpectedFiles(j)
    /\ Len(written[j]) = Len(emitted[j])
    /\ ExpectedFiles(j) \subseteq files

\* C8: whatever the other jobs do (fail to open, raise, return early) and in
\* whatever order the threads run, every job that does not fail itself is
\* eventually started, runs to its end and has produced its full set of pairs
\* and files, and stays so.
C8_SiblingsUnaffected ==
    <>[](\A j \in Jobs : Healthy(j) => Completed(j))

\* Two jobs have failed (one raised, one could not open its video) and the third
\* has completed with its files.
C8_Witness ==
    \E j, k, l \in Jobs :
        /\ pc[j] = "raised"
        /\ videos[k].fault = "open" /\ pc[k] = "done"
        /\ Healthy(l) /\ Completed(l) /\ written[l] # <<>>

\* The job has gone through its attempt to open the video.
OpenAttempted(j) == pc[j] \notin {"unsubmitted", "queued", "open"}

\* C9: a job whose video cannot be opened prints a warning and returns without
\* raising, having read no frame, yielded no pair and written no file; the
\* process ends with status 0 and with no other status.
C9_OpenFailureRecoverable ==
    /\ \A j \in Jobs : (videos[j].fault = "open" /\ OpenAttempted(j)) =>
          /\ <<"Warning", j>> \in stdout
          /\ pc[j] = "done"
          /\ future[j] = "returned"
          /\ frame[j] = None /\ frame_index[j] = 0
          /\ emitted[j] = <<>>
          /\ written[j] = <<>>
    /\ exit_status \in {None, 0}
    /\ main_pc = "exit" => exit_status = 0

\* The process has ended; one video could not be opened, another was processed.
C9_Witness ==
    /\ main_pc = "exit"
    /\ \E j, k \in Jobs :
          /\ videos[j].fault = "open" /\ cap[j] = "unopened"
          /\ pc[k] = "done" /\ written[k] # <<>>

Exceptions == {"OSError", "ZeroDivisionError", "cv2.error", "IOError"}

DigitValue(c) ==
    CASE c = "0" -> 0 [] c = "1" -> 1 [] c = "2" -> 2 [] c = "3" -> 3 [] c = "4" -> 4
      [] c = "5" -> 5 [] c = "6" -> 6 [] c = "7" -> 7 [] c = "8" -> 8 [] c = "9" -> 9

IsDigits(s) == \A n \in DOMAIN s : s[n] \in {"0", "1", "2", "3", "4", "5", "6", "7", "8", "9"}

RECURSIVE DecimalValue(_)
DecimalValue(s) ==
    IF s = <<>> THEN 0
    ELSE DecimalValue(SubSeq(s, 1, Len(s) - 1)) * 10 + DigitValue(s[Len(s)])

\* s is the decimal numeral of k filled with leading zeros to four characters (a
\* minus sign, when there is one, comes first and is one of the four), and with
\* no leading zero beyond that.
IsZeroPadded4(s, k) ==
    /\ Len(s) >= 4
    /\ IF k >= 0
       THEN IsDigits(s) /\ DecimalValue(s) = k /\ (Len(s) > 4 => s[1] # "0")
       ELSE /\ s[1] = "-"
            /\ IsDigits(Tail(s))
            /\ DecimalValue(Tail(s)) = 0 - k
            /\ (Len(s) > 4 => s[2] # "0")

\* The file <dir>/<base>_0000.<ext>.
FileZero(dir, base, ext) ==
    [dir |-> dir, stem |-> <<base, "_", <<"0", "0", "0", "0">>>>, ext |-> ext]

\* C13: every pair (k, frame) a job has emitted and handled caused exactly one
\* call of cv2.imwrite, for out/B/B_<k padded>.<format> without --no-subdir and
\* out/B_<k padded>.<format> with it; the paths of a job are pairwise different,
\* so they correspond one to one to its emissions; a file is present exactly if
\* some job's cv2.imwrite was called for it and did its work.  With --no-subdir,
\* jpg, and a.mp4 and b.mp4 each yielding bucket 0 only, the run ends with
\* exactly a_0000.jpg and b_0000.jpg in the base output directory.
C13_OneFilePerEmission ==
    /\ \A j \in Jobs :
          /\ Len(written[j]) = Len(emitted[j]) - (IF pc[j] = "save" THEN 1 ELSE 0)
          /\ \A k \in DOMAIN written[j] :
                LET w == written[j][k]
                    B == videos[j].path[2]
                IN  /\ w.dir = (IF no_subdir THEN <<"out">> ELSE <<"out", B>>)
                    /\ w.stem[1] = B
                    /\ w.stem[2] = "_"
                    /\ IsZeroPadded4(w.stem[3], emitted[j][k][1])
                    /\ w.ext = image_format
                    /\ (videos[j].fault = "none") => w \in files
          /\ \A k, l \in DOMAIN written[j] : k # l => written[j][k] # written[j][l]
    /\ \A f \in files : \E j \in Jobs : \E k \in DOMAIN written[j] :
          written[j][k] = f /\ videos[j].fault # "imwrite_false"
    /\ (/\ main_pc = "exit"
        /\ no_subdir
        /\ image_format = "jpg"
        /\ \A j \in Jobs : videos[j].fault = "none" /\ EmittedBuckets(j) = {0})
       => /\ files = {FileZero(<<"out">>, "a", "jpg"), FileZero(<<"out">>, "b", "jpg")}
          /\ dirs = {<<"out">>}

\* The flat two-video scenario has ended.
C13_Witness ==
    /\ main_pc = "exit"
    /\ no_subdir
    /\ image_format = "jpg"
    /\ Len(videos) = 2
    /\ \A j \in Jobs : videos[j].fault = "none" /\ EmittedBuckets(j) = {0} /\ pc[j] = "done"
    /\ Cardinality(files) = 2

\* ------------------------------------------------ claims: sharing and the pool

PathsWritten(j) == {written[j][k] : k \in DOMAIN written[j]}

\* C14 (as claimed): with per-video subdirectories, no two jobs for different
\* video paths hand the same file path to cv2.imwrite.
C14_NoSharedOutputPath ==
    (~no_subdir) =>
        \A j, k \in Jobs :
            (j # k /\ videos[j].path # videos[k].path) =>
                PathsWritten(j) \cap PathsWritten(k) = {}

\* C15: at every moment at most max_workers jobs are running; a job submitted
\* while all workers are busy stays in the queue, in submission order; and every
\* queued job is eventually started.
C15_BoundedPoolNoStarvation ==
    /\ [](Cardinality({j \in Jobs : Running(j)}) <= max_workers)
    /\ [](\A j \in Jobs : pc[j] = "queued" <=> (\E n \in DOMAIN work_queue : work_queue[n] = j))
    /\ [](\A m, n \in DOMAIN work_queue : m < n => work_queue[m] < work_queue[n])
    /\ \A j \in DOMAIN ArgvVideos : (pc[j] = "queued") ~> (pc[j] \notin {"unsubmitted", "queued"})

\* More videos than workers: every worker is busy and a job waits in the queue.
C15_Witness ==
    /\ Len(videos) > max_workers
    /\ Cardinality({j \in Jobs : Running(j)}) = max_workers
    /\ work_queue # <<>>
    /\ ~WorkerFree

\* C16: the scheduler returns only after every submitted job has ended, every
\* video having been submitted; and the run does end: every job terminates and
\* the process exits.
C16_JoinBarrierAndTermination ==
    /\ [](main_pc = "exit" =>
             (submitted = Len(videos) /\ \A j \in Jobs : Terminated(j) /\ gen[j] \notin {"running"}))
    /\ <>(main_pc = "exit")
    /\ \A j \in DOMAIN ArgvVideos : <>[](pc[j] \in {"done", "raised"})

\* The run has ended; one job raised in the middle of its stream and another
\* read its whole stream.
C16_Witness ==
    /\ main_pc = "exit"
    /\ \E j, k \in Jobs :
          /\ pc[j] = "raised" /\ gen[j] = "yield_boundary"
          /\ pc[k] = "done" /\ gen[k] = "finished" /\ frame_index[k] = NumFrames(k)

\* ------------------------------------------- claims: the selector's behaviour

\* The frames the generator has classified so far.
Processed(j) == 0..(frame_index[j] - 1)

\* C17 (as claimed): for a positive rate and interval, each frame's bucket is the
\* previous frame's bucket or the next one, and the k-th pair emitted is for
\* bucket k - 1: no index is skipped.
C17_DenseBuckets ==
    \A j \in Jobs : PositiveConfig(j) =>
        /\ \A i \in Processed(j) : i > 0 =>
              /\ CodeBucket(j, i) >= CodeBucket(j, i - 1)
              /\ CodeBucket(j, i) <= CodeBucket(j, i - 1) + 1
        /\ \A k \in DOMAIN emitted[j] : emitted[j][k][1] = k - 1

\* The interval is at least two frame periods: interval * rate >= 2.
IntervalCoversTwoFrames(j) == videos[j].fps * interval_sec >= 2 * IntervalDen

\* C17 (amended): for a positive rate and interval the bucket of a frame is never
\* below that of the previous frame, the first frame is in bucket 0 and the
\* emitted indices increase strictly from 0; they are the consecutive integers
\* 0..K, each frame's bucket exceeding the previous one's by at most 1, when the
\* interval is at least two frame periods.
C17_MonotoneBuckets ==
    \A j \in Jobs : PositiveConfig(j) =>
        /\ \A i \in Processed(j) :
              /\ i = 0 => CodeBucket(j, i) = 0
              /\ i > 0 => CodeBucket(j, i) >= CodeBucket(j, i - 1)
              /\ (i > 0 /\ IntervalCoversTwoFrames(j)) =>
                    CodeBucket(j, i) <= CodeBucket(j, i - 1) + 1
        /\ \A k \in DOMAIN emitted[j] :
              /\ k = 1 => emitted[j][k][1] = 0
              /\ k > 1 => emitted[j][k][1] > emitted[j][k - 1][1]
              /\ IntervalCoversTwoFrames(j) => emitted[j][k][1] = k - 1

\* A finished run with two frames per interval: buckets 0 and 1 emitted.
C17_Witness ==
    \E j \in Jobs :
        /\ PositiveConfig(j)
        /\ IntervalCoversTwoFrames(j)
        /\ SelectorDone(j)
        /\ Len(emitted[j]) = 2
        /\ emitted[j][2][1] = 1

\* The generator of job j reads frame_index[j] in this step.
ReadsFrame(j) == frame'[j] = frame_index[j] /\ frame[j] # frame_index[j]

\* C18: when the frame read is the first of a strictly greater bucket and a best
\* frame is held, this very step yields (open bucket, best frame) and suspends
\* the generator; while it is suspended the old bucket and its best frame are
\* still in place, the new frame is not installed and no later frame has been
\* read; when the generator is resumed, the new frame becomes the best frame of
\* the new bucket with its own score, whatever the old best score was, and
\* nothing is emitted by that.
C18_EmitBeforeInstall ==
    /\ [][\A j \in Jobs :
            (/\ gen[j] = "running"
             /\ interval_sec # 0
             /\ ReadsFrame(j)
             /\ HasBest(j)
             /\ CodeBucket(j, frame_index[j]) > prev_interval[j])
            => /\ emitted'[j] = Append(emitted[j], <<prev_interval[j], best_frame[j]>>)
               /\ gen'[j] = "yield_boundary"
               /\ best_frame'[j] = best_frame[j] /\ best_focus'[j] = best_focus[j]
               /\ prev_interval'[j] = prev_interval[j]]_vars
    /\ [](\A j \in Jobs : gen[j] = "yield_boundary" =>
            /\ emitted[j] # <<>>
            /\ emitted[j][Len(emitted[j])] = <<prev_interval[j], best_frame[j]>>
            /\ frame[j] = frame_index[j]
            /\ best_frame[j] < frame[j]
            /\ CodeBucket(j, frame[j]) # prev_interval[j])
    /\ [][\A j \in Jobs :
            (gen[j] = "yield_boundary" /\ gen'[j] # "yield_boundary" /\ pc'[j] # "raised")
            => /\ gen'[j] = "running"
               /\ best_frame'[j] = frame[j]
               /\ best_focus'[j] = Focus(j, frame[j])
               /\ prev_interval'[j] = CodeBucket(j, frame[j])
               /\ frame_index'[j] = frame[j] + 1
               /\ frame'[j] = frame[j]
               /\ emitted'[j] = emitted[j]]_vars

\* The generator has just been resumed after emitting a bucket whose best frame
\* was sharper than the frame that now is the candidate of a greater bucket.
C18_Witness ==
    \E j \in Jobs :
        /\ gen[j] = "running"
        /\ Len(emitted[j]) = 1
        /\ best_frame[j] = frame[j]
        /\ frame_index[j] = frame[j] + 1
        /\ prev_interval[j] > emitted[j][1][1]
        /\ best_focus[j] < Focus(j, emitted[j][1][2])

\* The frames of the stream the generator's locals refer to.
Retained(j) == {best_frame[j], frame[j]} \ {None}

\* C19 (as claimed): the selector never holds more than one frame.
C19_AtMostOneFrame ==
    \A j \in Jobs : Cardinality(Retained(j)) <= 1

\* C19 (amended): the selector holds at most two frames, the best candidate of
\* the open bucket and the frame last read, never the other frames of a bucket
\* or of the video: the best frame is a frame of the open bucket, the other
\* frame is the one read last, no frame emitted for a closed bucket is held once
\* the generator runs again, and when the best frame changes the new one is the
\* frame last read and the old one is no longer held.
C19_AtMostTwoFrames ==
    /\ [](\A j \in Jobs :
            /\ Cardinality(Retained(j)) <= 2
            /\ frame[j] # None => frame[j] \in {frame_index[j], frame_index[j] - 1}
            /\ HasBest(j) =>
                  /\ best_frame[j] \in Processed(j)
                  /\ CodeBucket(j, best_frame[j]) = prev_interval[j]
            /\ gen[j] = "running" =>
                  \A k \in DOMAIN emitted[j] : emitted[j][k][2] \notin Retained(j))
    /\ [][\A j \in Jobs : best_frame'[j] # best_frame[j] =>
            (best_frame'[j] = frame'[j] /\ Retained(j)' = {best_frame'[j]})]_vars

\* The generator is suspended at a bucket boundary holding the best frame of the
\* bucket it closes and the frame it has just read.
C19_Witness ==
    \E j \in Jobs :
        /\ gen[j] = "yield_boundary"
        /\ Cardinality(Retained(j)) = 2
        /\ Len(written[j]) = 1

\* The selector as specified, run on frames i.. of job j's stream: no bucket is
\* open at the start; the first frame opens its bucket as the sole candidate; a
\* frame of the open bucket replaces the best one on a strictly greater score; a
\* frame of another bucket has the open bucket emitted and becomes the sole
\* candidate of its own; at the end the open bucket is emitted.
RECURSIVE FiveStepSelector(_, _, _, _, _, _)
FiveStepSelector(j, i, open, current, best, out) ==
    IF i >= NumFrames(j)
    THEN IF open THEN Append(out, <<current, best>>) ELSE out
    ELSE LET bucket == SpecBucket(j, i) IN
         IF ~open THEN FiveStepSelector(j, i + 1, TRUE, bucket, i, out)
         ELSE IF bucket = current
              THEN FiveStepSelector(j, i + 1, TRUE, current,
                                    IF Focus(j, i) > Focus(j, best) THEN i ELSE best, out)
              ELSE FiveStepSelector(j, i + 1, TRUE, bucket, i, Append(out, <<current, best>>))

SpecifiedPairs(j) == FiveStepSelector(j, 0, FALSE, 0, None, <<>>)

IsPrefix(s, t) == Len(s) <= Len(t) /\ SubSeq(t, 1, Len(s)) = s

\* C20: for a positive rate and interval and scores >= 0, the pairs the code has
\* emitted are at every moment the first pairs of the specified selector's
\* sequence and, once the stream is exhausted, the whole of it; and as soon as
\* the first frame has been processed a best frame is held, frame 0 right after
\* the first read.
C20_InitialStateEquivalent ==
    \A j \in Jobs : PositiveConfig(j) =>
        /\ IsPrefix(emitted[j], SpecifiedPairs(j))
        /\ SelectorDone(j) => emitted[j] = SpecifiedPairs(j)
        /\ frame_index[j] >= 1 => HasBest(j)
        /\ frame_index[j] = 1 => (best_frame[j] = 0 /\ best_focus[j] = Focus(j, 0))

\* A finished run whose first frame had score 0 and which emitted two pairs, the
\* first of them a frame of score 0.
C20_Witness ==
    \E j \in Jobs :
        /\ PositiveConfig(j)
        /\ SelectorDone(j)
        /\ Len(emitted[j]) = 2
        /\ Focus(j, 0) = 0
        /\ Focus(j, emitted[j][1][2]) = 0

====
